---- MODULE Spec2Model ----
(***************************************************************************)
(* Model of the classification session of ROP_classify_tool:               *)
(* utils/image_manager.py (ImageManager), driven call by call, together    *)
(* with the CSV files it writes and reads; and of the frame extractor,      *)
(* utils/video_processor.py (VideoProcessor), as ui/main_window.py         *)
(* (MainWindow) starts it and receives its signals.                        *)
(*                                                                         *)
(* A path is the sequence of its components, so that os.path.basename is   *)
(* the last component.  A CSV file is the sequence of its records, each a  *)
(* sequence of fields: the level at which csv.writer and csv.DictReader    *)
(* exchange data.  Reading goes through a text-mode file object opened     *)
(* without newline='', which translates every carriage return of a field   *)
(* to a line feed; writing (newline='') translates nothing.                *)
(***************************************************************************)
EXTENDS Integers, Sequences, FiniteSets, TLC

VARIABLES image_paths, classifications, current_index, files, emitted, last,
          vp, gui_thread, progress_bar, widgets, disk

vars == <<image_paths, classifications, current_index, files, emitted, last,
          vp, gui_thread, progress_bar, widgets, disk>>

\* What ImageManager and the CSV files are made of, and what VideoProcessor
\* and the widgets of the main window are made of; disk is the set of the
\* image files that exist.
managerVars == <<image_paths, classifications, current_index, files, emitted, last>>

videoVars == <<vp, gui_thread, progress_bar, widgets, disk>>

session == <<image_paths, classifications, current_index>>

(***************************************************************************)
(* Bounds of the model.                                                    *)
(***************************************************************************)
MaxImages == 2
MaxRows == 2
MaxFrames == 2

(***************************************************************************)
(* The inputs: the image files (two of them share a basename, one has a    *)
(* carriage return in its name), CSV paths, and the CSV files a user may   *)
(* put on disk.                                                            *)
(***************************************************************************)
Folder == << <<"d2", "a.jpg">>, <<"d1", "x\ry.jpg">>, <<"d1", "a.jpg">> >>

Paths == { Folder[i] : i \in 1..Len(Folder) }

Min(a, b) == IF a < b THEN a ELSE b

\* The lists load_images is given: n consecutive files of the listing, in
\* its order; no file is listed twice (two files of different directories
\* may still have the same name).
Selection(start, n) == [i \in 1..n |-> Folder[start + i - 1]]

PathLists ==
    UNION { { Selection(start, n) : n \in 0..Min(MaxImages, Len(Folder) - start + 1) } :
            start \in 1..Len(Folder) }

CsvPaths == { "out.csv" }

Labels == { "Yes", "No" }

Indices == -1 .. MaxImages

PyNone == "<None>"

basename(path) == path[Len(path)]

Basenames(paths) == { basename(paths[i]) : i \in 1..Len(paths) }

(***************************************************************************)
(* The file system: every CSV path holds no file, something that cannot be *)
(* read as text (a directory, undecodable bytes), or CSV records.          *)
(***************************************************************************)
Absent == [kind |-> "absent", recs |-> <<>>]
Unreadable == [kind |-> "unreadable", recs |-> <<>>]
CsvFile(recs) == [kind |-> "csv", recs |-> recs]

StdHeader == <<"frame_index", "image_name", "classification">>

Headers == { StdHeader,
             <<"classification", "image_name", "frame_index">>,
             <<"frame_index", "image_name">>,
             <<"image_name", "classification">>,
             <<"frame_index", "image_name", "classification", "note">> }

RECURSIVE SeqsUpTo(_, _)
SeqsUpTo(S, n) ==
    IF n = 0 THEN { <<>> }
    ELSE LET shorter == SeqsUpTo(S, n - 1)
         IN  shorter \cup { Append(s, x) : s \in shorter, x \in S }

\* What a user's row says; n is the number of fields the row really has.
UserRow(image_name, classification, n) ==
    [image_name |-> image_name, classification |-> classification, n |-> n]

UserRows == { UserRow("a.jpg", "Yes", 4),
              UserRow("a.jpg", "Maybe", 4),
              UserRow("zz.jpg", "No", 4),
              UserRow("zz.jpg", "Maybe", 4) }

ShortRow == UserRow("a.jpg", "No", 1)

\* The record of a user's row under a header: one field per column.
Layout(header, row) ==
    [i \in 1..Min(Len(header), row.n) |->
        CASE header[i] = "image_name"     -> row.image_name
          [] header[i] = "classification" -> row.classification
          [] header[i] = "frame_index"    -> "1"
          [] OTHER                        -> "-"]

UserCsv(header, rows) ==
    CsvFile(<<header>> \o [i \in 1..Len(rows) |-> Layout(header, rows[i])])

\* The row lists of the user's files: up to MaxRows rows, none twice.
RowLists ==
    { rows \in SeqsUpTo(UserRows, MaxRows) :
        \A i, j \in 1..Len(rows) : rows[i] = rows[j] => i = j }

UserFiles ==
    { UserCsv(StdHeader, rows) : rows \in RowLists }
    \cup { UserCsv(h, << UserRow("a.jpg", "Yes", 4) >>) : h \in Headers }
    \cup { UserCsv(h, << ShortRow >>) : h \in Headers }
    \cup { UserCsv(StdHeader, << UserRow("a.jpg", "Yes", 4), UserRow("a.jpg", "No", 4) >>),
           UserCsv(StdHeader, << UserRow("a.jpg", "No", 4), UserRow("a.jpg", "Yes", 4) >>) }
    \cup { CsvFile(<<>>), Unreadable }

(***************************************************************************)
(* Reading a CSV (load_csv, lines 155-170).                                *)
(***************************************************************************)
\* The text layer of open(path, 'r'): universal newlines turn the carriage
\* return of a field into a line feed.
UniversalNewlines(s) == IF s = "x\ry.jpg" THEN "x\ny.jpg" ELSE s

ReadRecords(f) ==
    [i \in 1..Len(f.recs) |->
        [j \in 1..Len(f.recs[i]) |-> UniversalNewlines(f.recs[i][j])]]

\* csv.DictReader: the first record is fieldnames, None for an empty file.
HasFieldnames(recs) == Len(recs) > 0

Fieldnames(recs) == recs[1]

\* The rows after the header; DictReader skips records without fields.
DataRows(recs) == SelectSeq(Tail(recs), LAMBDA r : r # <<>>)

Max(S) == CHOOSE x \in S : \A y \in S : y <= x

\* row[key] of the dict DictReader builds: the field under the last column
\* of that name, None (restval) when the row is too short to have it.
DictValue(fieldnames, fields, key) ==
    LET col == Max({ i \in 1..Len(fieldnames) : fieldnames[i] = key })
    IN  IF col <= Len(fields) THEN fields[col] ELSE PyNone

\* A variant of HeaderOk that does not ask for frame_index.
HeaderOk_two_columns(fieldnames) ==
    \A field \in { "image_name", "classification" } :
        \E i \in 1..Len(fieldnames) : fieldnames[i] = field

required_fields == { "frame_index", "image_name", "classification" }

HeaderOk(fieldnames) ==
    \A field \in required_fields :
        \E i \in 1..Len(fieldnames) : fieldnames[i] = field

\* A variant of AcceptedClassifications that lets any classification in.
AcceptedClassifications_any == { "Yes", "No", "", "Maybe" }

AcceptedClassifications == { "Yes", "No", "" }

\* loaded_classifications after the first k rows.
RECURSIVE LoadedClassifications(_, _, _)
LoadedClassifications(fieldnames, rows, k) ==
    IF k = 0 THEN [n \in {} |-> ""]
    ELSE LET before == LoadedClassifications(fieldnames, rows, k - 1)
             image_name == DictValue(fieldnames, rows[k], "image_name")
             classification == DictValue(fieldnames, rows[k], "classification")
         IN  IF classification \in AcceptedClassifications
             THEN [n \in (DOMAIN before) \cup {image_name} |->
                      IF n = image_name THEN classification ELSE before[n]]
             ELSE before

Message(kind, count) == [kind |-> kind, count |-> count]

\* A variant of missing_files that finds nothing missing.
missing_files_unchecked(loaded, paths) == {}

\* Line 177: the names the CSV gives a classification to that no current
\* image has.
missing_files(loaded, paths) == (DOMAIN loaded) \ Basenames(paths)

\* A variant of update_classifications that keeps only what the CSV names.
update_classifications_only_loaded(cls, loaded) ==
    [n \in (DOMAIN cls) \cap (DOMAIN loaded) |-> loaded[n]]

\* A variant of update_classifications that clears what the CSV does not name.
update_classifications_clears(cls, loaded) ==
    [n \in DOMAIN cls |-> IF n \in DOMAIN loaded THEN loaded[n] ELSE ""]

\* Lines 182-184: the classifications after the update.
update_classifications(cls, loaded) ==
    [n \in DOMAIN cls |-> IF n \in DOMAIN loaded THEN loaded[n] ELSE cls[n]]

ImportResult(ok, kind, count, cls) ==
    [ok |-> ok, msg |-> Message(kind, count), classifications |-> cls]

\* load_csv as a function of the file and the session: the returned flag,
\* the message, and the classifications it leaves.  An empty file has
\* fieldnames None, and the header test raises TypeError; so does open() of
\* something unreadable: both end in the except branch.
load_csv(f, paths, cls) ==
    IF f.kind = "absent"
    THEN ImportResult(FALSE, "FileNotFound", 0, cls)
    ELSE IF f.kind = "unreadable" \/ ~HasFieldnames(ReadRecords(f))
    THEN ImportResult(FALSE, "ReadError", 0, cls)
    ELSE LET recs == ReadRecords(f)
             fieldnames == Fieldnames(recs)
         IN  IF ~HeaderOk(fieldnames)
             THEN ImportResult(FALSE, "MalformedHeader", 0, cls)
             ELSE LET rows == DataRows(recs)
                      loaded == LoadedClassifications(fieldnames, rows, Len(rows))
                      missing == missing_files(loaded, paths)
                  IN  IF missing # {}
                      THEN ImportResult(FALSE, "UnknownImages", Cardinality(missing), cls)
                      ELSE ImportResult(TRUE, "Loaded", 0,
                                        update_classifications(cls, loaded))

(***************************************************************************)
(* Writing a CSV (save_csv, lines 202-212).                                *)
(***************************************************************************)
GetClassification(cls, name) == IF name \in DOMAIN cls THEN cls[name] ELSE ""

\* A variant of save_csv_records that numbers the rows from 0.
save_csv_records_from_zero(paths, cls) ==
    <<StdHeader>> \o
    [i \in 1..Len(paths) |->
        <<ToString(i - 1), basename(paths[i]), GetClassification(cls, basename(paths[i]))>>]

save_csv_records(paths, cls) ==
    <<StdHeader>> \o
    [i \in 1..Len(paths) |->
        <<ToString(i), basename(paths[i]), GetClassification(cls, basename(paths[i]))>>]

(***************************************************************************)
(* The state after construction (ImageManager.__init__), no file on disk.  *)
(***************************************************************************)
\* The record of a call: what was called with what, what it returned, where
\* the cursor was when it was called, and whether the call right before it
\* was a next_image that moved the cursor.
Call(op, arg, ret, msg) ==
    [op |-> op, arg |-> arg, ret |-> ret, msg |-> msg, pre_index |-> current_index,
     after_advance |-> (last.op = "next_image" /\ last.ret = "True")]

NoMessage == Message("", 0)

\* A video as the decoder presents it: whether it opens, the frame count
\* CAP_PROP_FRAME_COUNT reports, and the number of frames read() delivers
\* before it fails.
Video(opens, frame_count, frames) ==
    [opens |-> opens, frame_count |-> frame_count, frames |-> frames]

\* The frame of extract_frames: where it is, its locals, the number of
\* read() calls, the files imwrite has written and the signals emitted in
\* this call, and, while the call runs, the session as it was when the call
\* started.  The frame of a call that has returned is kept (pc "returned")
\* until the thread runs its next handler.
NotStarted ==
    [pc |-> "idle", video |-> Video(FALSE, 0, 0), total_frames |-> 0,
     frame_index |-> 0, frame_paths |-> <<>>, reads |-> 0, written |-> {},
     signals |-> <<>>, session_before |-> << <<>>, [n \in {} |-> ""], 0 >>]

Init ==
    /\ image_paths = <<>>
    /\ classifications = [n \in {} |-> ""]
    /\ current_index = 0
    /\ files = [p \in CsvPaths |-> Absent]
    /\ emitted = <<>>
    /\ last = [op |-> "__init__", arg |-> <<>>, ret |-> "None", msg |-> NoMessage,
               pre_index |-> 0, after_advance |-> FALSE]
    /\ vp = NotStarted
    /\ gui_thread = <<>>
    /\ progress_bar = [visible |-> FALSE, maximum |-> 100, value |-> -1]
    /\ widgets = [image_label |-> "gray", btn_prev |-> FALSE, btn_next |-> FALSE,
                  btn_load_csv |-> FALSE]
    /\ disk = {}

(***************************************************************************)
(* The operations of ImageManager.                                         *)
(***************************************************************************)
\* A variant of load_images that keeps the label of a name it already knows.
load_images_keeps_labels(paths) ==
    /\ image_paths' = paths
    /\ current_index' = 0
    /\ classifications' =
          [n \in Basenames(paths) |->
              IF n \in DOMAIN classifications THEN classifications[n] ELSE ""]
    /\ emitted' = <<>>
    /\ last' = Call("load_images", paths, "None", NoMessage)
    /\ UNCHANGED files

load_images(paths) ==
    /\ image_paths' = paths
    /\ current_index' = 0
    /\ classifications' = [n \in Basenames(paths) |-> ""]
    /\ emitted' = <<>>
    /\ last' = Call("load_images", paths, "None", NoMessage)
    /\ UNCHANGED files

\* A variant of set_classification that moves on to the next image.
set_classification_advances(classification) ==
    /\ IF image_paths = <<>>
       THEN /\ UNCHANGED <<classifications, current_index>>
            /\ emitted' = <<>>
       ELSE LET image_filename == basename(image_paths[current_index + 1])
            IN  /\ classifications' =
                      [n \in (DOMAIN classifications) \cup {image_filename} |->
                          IF n = image_filename THEN classification
                          ELSE classifications[n]]
                /\ emitted' = << [signal |-> "classification_changed",
                                  index |-> current_index,
                                  classification |-> classification] >>
                /\ current_index' = IF current_index < Len(image_paths) - 1
                                    THEN current_index + 1 ELSE current_index
    /\ last' = Call("set_classification", classification, "None", NoMessage)
    /\ UNCHANGED <<image_paths, files>>

set_classification(classification) ==
    /\ IF image_paths = <<>>
       THEN /\ UNCHANGED <<classifications, current_index>>
            /\ emitted' = <<>>
       ELSE LET image_filename == basename(image_paths[current_index + 1])
            IN  /\ classifications' =
                      [n \in (DOMAIN classifications) \cup {image_filename} |->
                          IF n = image_filename THEN classification
                          ELSE classifications[n]]
                /\ emitted' = << [signal |-> "classification_changed",
                                  index |-> current_index,
                                  classification |-> classification] >>
                /\ UNCHANGED current_index
    /\ last' = Call("set_classification", classification, "None", NoMessage)
    /\ UNCHANGED <<image_paths, files>>

\* A variant of next_image whose bound is one too far.
next_image_overrun ==
    /\ IF image_paths = <<>> \/ current_index >= Len(image_paths)
       THEN /\ UNCHANGED current_index
            /\ last' = Call("next_image", <<>>, "False", NoMessage)
       ELSE /\ current_index' = current_index + 1
            /\ last' = Call("next_image", <<>>, "True", NoMessage)
    /\ emitted' = <<>>
    /\ UNCHANGED <<image_paths, classifications, files>>

\* A variant of next_image that wraps from the last image to the first.
next_image_wraps ==
    /\ IF image_paths = <<>>
       THEN /\ UNCHANGED current_index
            /\ last' = Call("next_image", <<>>, "False", NoMessage)
       ELSE /\ current_index' = (current_index + 1) % Len(image_paths)
            /\ last' = Call("next_image", <<>>, "True", NoMessage)
    /\ emitted' = <<>>
    /\ UNCHANGED <<image_paths, classifications, files>>

next_image ==
    /\ IF image_paths = <<>> \/ current_index >= Len(image_paths) - 1
       THEN /\ UNCHANGED current_index
            /\ last' = Call("next_image", <<>>, "False", NoMessage)
       ELSE /\ current_index' = current_index + 1
            /\ last' = Call("next_image", <<>>, "True", NoMessage)
    /\ emitted' = <<>>
    /\ UNCHANGED <<image_paths, classifications, files>>

\* A variant of prev_image whose bound is one too far.
prev_image_underrun ==
    /\ IF image_paths = <<>> \/ current_index < 0
       THEN /\ UNCHANGED current_index
            /\ last' = Call("prev_image", <<>>, "False", NoMessage)
       ELSE /\ current_index' = current_index - 1
            /\ last' = Call("prev_image", <<>>, "True", NoMessage)
    /\ emitted' = <<>>
    /\ UNCHANGED <<image_paths, classifications, files>>

\* A variant of prev_image that does not go back to the first image.
prev_image_stops_early ==
    /\ IF image_paths = <<>> \/ current_index <= 1
       THEN /\ UNCHANGED current_index
            /\ last' = Call("prev_image", <<>>, "False", NoMessage)
       ELSE /\ current_index' = current_index - 1
            /\ last' = Call("prev_image", <<>>, "True", NoMessage)
    /\ emitted' = <<>>
    /\ UNCHANGED <<image_paths, classifications, files>>

prev_image ==
    /\ IF image_paths = <<>> \/ current_index <= 0
       THEN /\ UNCHANGED current_index
            /\ last' = Call("prev_image", <<>>, "False", NoMessage)
       ELSE /\ current_index' = current_index - 1
            /\ last' = Call("prev_image", <<>>, "True", NoMessage)
    /\ emitted' = <<>>
    /\ UNCHANGED <<image_paths, classifications, files>>

\* A variant of go_to_image whose upper bound is one too far.
go_to_image_inclusive(index) ==
    /\ IF image_paths = <<>> \/ index < 0 \/ index > Len(image_paths)
       THEN /\ UNCHANGED current_index
            /\ last' = Call("go_to_image", index, "False", NoMessage)
       ELSE /\ current_index' = index
            /\ last' = Call("go_to_image", index, "True", NoMessage)
    /\ emitted' = <<>>
    /\ UNCHANGED <<image_paths, classifications, files>>

go_to_image(index) ==
    /\ IF image_paths = <<>> \/ index < 0 \/ index >= Len(image_paths)
       THEN /\ UNCHANGED current_index
            /\ last' = Call("go_to_image", index, "False", NoMessage)
       ELSE /\ current_index' = index
            /\ last' = Call("go_to_image", index, "True", NoMessage)
    /\ emitted' = <<>>
    /\ UNCHANGED <<image_paths, classifications, files>>

\* A variant of LoadCsv that puts the cursor on the first image.
LoadCsv_resets_cursor(csv_path) ==
    LET r == load_csv(files[csv_path], image_paths, classifications)
    IN  /\ classifications' = r.classifications
        /\ current_index' = 0
        /\ last' = Call("load_csv", csv_path, IF r.ok THEN "True" ELSE "False", r.msg)
        /\ emitted' = <<>>
        /\ UNCHANGED <<image_paths, files>>

LoadCsv(csv_path) ==
    LET r == load_csv(files[csv_path], image_paths, classifications)
    IN  /\ classifications' = r.classifications
        /\ last' = Call("load_csv", csv_path, IF r.ok THEN "True" ELSE "False", r.msg)
        /\ emitted' = <<>>
        /\ UNCHANGED <<image_paths, current_index, files>>

\* save_csv: the write goes through, or open() raises and the file is as it
\* was, or a write raises and the records flushed so far remain.
SaveCsv(csv_path) ==
    LET recs == save_csv_records(image_paths, classifications)
    IN  /\ \/ /\ files' = [files EXCEPT ![csv_path] = CsvFile(recs)]
              /\ last' = Call("save_csv", csv_path, "True", Message("Saved", 0))
           \/ /\ UNCHANGED files
              /\ last' = Call("save_csv", csv_path, "False", Message("WriteError", 0))
           \/ \E k \in 0..(Len(recs) - 1) :
              /\ files' = [files EXCEPT ![csv_path] = CsvFile(SubSeq(recs, 1, k))]
              /\ last' = Call("save_csv", csv_path, "False", Message("WriteError", 0))
        /\ emitted' = <<>>
        /\ UNCHANGED <<image_paths, classifications, current_index>>

(***************************************************************************)
(* The user, outside the program: puts a CSV file on disk or removes it.   *)
(***************************************************************************)
UserWritesFile(csv_path, f) ==
    /\ files' = [files EXCEPT ![csv_path] = f]
    /\ last' = Call("(user edits file)", csv_path, "None", NoMessage)
    /\ emitted' = <<>>
    /\ UNCHANGED <<image_paths, classifications, current_index>>

\* The session driven call by call; no video is selected.
Next ==
    \/ (\E paths \in PathLists : load_images(paths)) /\ UNCHANGED videoVars
    \/ (\E classification \in Labels : set_classification(classification))
          /\ UNCHANGED videoVars
    \/ next_image /\ UNCHANGED videoVars
    \/ prev_image /\ UNCHANGED videoVars
    \/ (\E index \in Indices : go_to_image(index)) /\ UNCHANGED videoVars
    \/ (\E csv_path \in CsvPaths : LoadCsv(csv_path)) /\ UNCHANGED videoVars
    \/ (\E csv_path \in CsvPaths : SaveCsv(csv_path)) /\ UNCHANGED videoVars
    \/ (\E csv_path \in CsvPaths, f \in UserFiles \cup {Absent} :
            UserWritesFile(csv_path, f)) /\ UNCHANGED videoVars

Spec == Init /\ [][Next]_vars

(***************************************************************************)
(* The frame extractor (VideoProcessor.extract_frames) and the handlers of *)
(* MainWindow around it.  on_select_files calls extract_frames directly,   *)
(* and the three signals are connected to slots of the same thread, so an  *)
(* emit runs its slot before it returns: the extraction and its slots are  *)
(* steps of the one thread that runs the event loop, and gui_thread is the *)
(* stack of what that thread is in (empty when it is back in the loop).    *)
(***************************************************************************)
\* The frame counts a decoder may report: negative, zero, and positive
\* ones below, at and above the number of frames it then delivers.
FrameCounts == { -1, 0, 1, MaxFrames + 1 }

Videos ==
    { Video(FALSE, 0, 0) }
    \cup { Video(TRUE, frame_count, frames) :
             frame_count \in FrameCounts, frames \in 0..MaxFrames }

output_dir == <<"out", "v">>

base_name == "v"

\* format(frame_index, "04d"): at least four digits, padded with zeros.
Pad4(i) ==
    IF i < 10 THEN "000" \o ToString(i)
    ELSE IF i < 100 THEN "00" \o ToString(i)
    ELSE IF i < 1000 THEN "0" \o ToString(i)
    ELSE ToString(i)

frame_filename(frame_index) == base_name \o "_" \o Pad4(frame_index) \o ".jpg"

frame_path(frame_index) == Append(output_dir, frame_filename(frame_index))

\* cv2.imwrite writes the file and returns True, returns False without
\* writing it, or raises.
ImwriteOutcomes == { "written", "not_written", "raised" }

Signal(name, current, total, paths, message) ==
    [signal |-> name, current |-> current, total |-> total,
     paths |-> paths, message |-> message]

progress_updated(current, total) == Signal("progress_updated", current, total, <<>>, "")

processing_completed(paths) == Signal("processing_completed", 0, 0, paths, "")

\* The three messages of extract_frames, by the error they report.
error_occurred(message) == Signal("error_occurred", 0, 0, <<>>, message)

\* A variant of show_error that also empties the session.
show_error_resets(message) == load_images(<<>>)

\* The slot of error_occurred: a message box, which is closed again when
\* the slot returns; nothing of the session is touched.
show_error(message) == UNCHANGED managerVars

\* The slot of progress_updated.
update_progress(current, total) ==
    progress_bar' = [visible |-> TRUE, maximum |-> total, value |-> current]

\* The border of image_label that update_classification_display sets.
DisplayStyle(classification) ==
    IF classification = "Yes" THEN "green"
    ELSE IF classification = "No" THEN "red"
    ELSE "gray"

\* update_ui_state(True), after update_classification_display has set the
\* border for the image at the cursor.
update_ui_state(image_path) ==
    [image_label  |-> DisplayStyle(GetClassification(classifications',
                                                     basename(image_path))),
     btn_prev     |-> current_index' > 0,
     btn_next     |-> current_index' < Len(image_paths') - 1,
     btn_load_csv |-> TRUE]

\* display_image, called at the end of a handler, when the session is what
\* the handler made of it and the widgets are shown: without an image, or
\* with one whose file does not exist, only the text of the label is set and
\* the method returns.
display_image(shown) ==
    IF \/ image_paths' = <<>>
       \/ current_index' < 0
       \/ current_index' >= Len(image_paths')
       \/ image_paths'[current_index' + 1] \notin disk'
    THEN widgets' = shown
    ELSE widgets' = update_ui_state(image_paths'[current_index' + 1])

\* The slot of processing_completed: without frames an error box, with
\* frames they become the session and the first one is displayed.
on_processing_completed(frame_paths) ==
    /\ progress_bar' = [progress_bar EXCEPT !.visible = FALSE]
    /\ UNCHANGED disk
    /\ IF frame_paths = <<>>
       THEN show_error("NoFrames") /\ UNCHANGED widgets
       ELSE load_images(frame_paths) /\ display_image(widgets)

\* The record of a handler that has called no method of ImageManager.
NoCall ==
    [op |-> "(no call)", arg |-> <<>>, ret |-> "None", msg |-> NoMessage,
     pre_index |-> 0, after_advance |-> FALSE]

\* on_select_files, the video branch: the output folder is made (or that
\* fails and the handler returns), the progress bar is shown, and
\* extract_frames is called; up to there no method of ImageManager has been
\* called and no signal emitted.
on_select_files(video, made) ==
    /\ gui_thread = <<>>
    /\ IF made
       THEN /\ progress_bar' = [progress_bar EXCEPT !.visible = TRUE, !.value = 0]
            /\ gui_thread' = <<"on_select_files", "extract_frames">>
            /\ vp' = [NotStarted EXCEPT !.pc = "open", !.video = video,
                                        !.session_before = session]
            /\ last' = NoCall
            /\ emitted' = <<>>
            /\ UNCHANGED <<image_paths, classifications, current_index, files>>
       ELSE /\ show_error("MakedirsError")
            /\ UNCHANGED <<vp, gui_thread, progress_bar>>
    /\ UNCHANGED <<widgets, disk>>

\* error_occurred.emit(message); return []: the slot runs, extract_frames
\* and on_select_files return.
ErrorOccurred(frame, message) ==
    /\ vp' = [frame EXCEPT !.pc = "returned",
                           !.signals = Append(@, error_occurred(message)),
                           !.session_before = NotStarted.session_before]
    /\ show_error(message)
    /\ gui_thread' = <<>>
    /\ UNCHANGED <<progress_bar, widgets, disk>>

\* Lines 34-37.
extract_open ==
    /\ vp.pc = "open"
    /\ IF ~vp.video.opens
       THEN ErrorOccurred(vp, "StreamOpenError")
       ELSE /\ vp' = [vp EXCEPT !.pc = "count"]
            /\ UNCHANGED <<gui_thread, progress_bar, widgets, disk>>
            /\ UNCHANGED managerVars

\* A variant of extract_count that goes on whatever the count is.
extract_count_unchecked ==
    /\ vp.pc = "count"
    /\ vp' = [vp EXCEPT !.pc = "read", !.total_frames = vp.video.frame_count]
    /\ UNCHANGED <<gui_thread, progress_bar, widgets, disk>>
    /\ UNCHANGED managerVars

\* Lines 40-50.
extract_count ==
    /\ vp.pc = "count"
    /\ LET total_frames == vp.video.frame_count
       IN  IF total_frames <= 0
           THEN ErrorOccurred(vp, "FrameCountUnavailable")
           ELSE /\ vp' = [vp EXCEPT !.pc = "read", !.total_frames = total_frames]
                /\ UNCHANGED <<gui_thread, progress_bar, widgets, disk>>
                /\ UNCHANGED managerVars

\* A variant of extract_read that also stops when total_frames are read.
extract_read_by_count ==
    /\ vp.pc = "read"
    /\ LET frame == [vp EXCEPT !.reads = @ + 1]
           ret == vp.reads < vp.video.frames /\ vp.frame_index < vp.total_frames
       IN  IF ret
           THEN /\ vp' = [frame EXCEPT !.pc = "write", !.frame_index = @ + 1]
                /\ UNCHANGED <<gui_thread, progress_bar, widgets, disk>>
                /\ UNCHANGED managerVars
           ELSE /\ vp' = [frame EXCEPT
                            !.pc = "returned",
                            !.signals = Append(@, processing_completed(vp.frame_paths)),
                            !.session_before = NotStarted.session_before]
                /\ on_processing_completed(vp.frame_paths)
                /\ gui_thread' = <<>>

\* Lines 53-57 and, when read() fails, 70-74 with the slot of
\* processing_completed.
extract_read ==
    /\ vp.pc = "read"
    /\ LET frame == [vp EXCEPT !.reads = @ + 1]
           ret == vp.reads < vp.video.frames
       IN  IF ret
           THEN /\ vp' = [frame EXCEPT !.pc = "write", !.frame_index = @ + 1]
                /\ UNCHANGED <<gui_thread, progress_bar, widgets, disk>>
                /\ UNCHANGED managerVars
           ELSE /\ vp' = [frame EXCEPT
                            !.pc = "returned",
                            !.signals = Append(@, processing_completed(vp.frame_paths)),
                            !.session_before = NotStarted.session_before]
                /\ on_processing_completed(vp.frame_paths)
                /\ gui_thread' = <<>>

\* Lines 59-67: the value imwrite returns is not looked at; an exception
\* goes to lines 76-78.
extract_write(outcome) ==
    /\ vp.pc = "write"
    /\ IF outcome = "raised"
       THEN ErrorOccurred(vp, "ExtractionError")
       ELSE /\ vp' = [vp EXCEPT
                        !.pc = "read",
                        !.written = IF outcome = "written"
                                    THEN @ \cup { frame_path(vp.frame_index) }
                                    ELSE @,
                        !.frame_paths = Append(@, frame_path(vp.frame_index)),
                        !.signals = Append(@, progress_updated(vp.frame_index,
                                                               vp.total_frames))]
            /\ update_progress(vp.frame_index, vp.total_frames)
            /\ disk' = IF outcome = "written"
                       THEN disk \cup { frame_path(vp.frame_index) }
                       ELSE disk
            /\ UNCHANGED <<gui_thread, widgets>>
            /\ UNCHANGED managerVars

\* The handlers of the buttons, run by the event loop when the thread is
\* back in it.
Dispatch ==
    /\ gui_thread = <<>>
    /\ vp' = NotStarted
    /\ UNCHANGED <<gui_thread, progress_bar, disk>>

on_next_image ==
    /\ Dispatch
    /\ next_image
    /\ IF last'.ret = "True" THEN display_image(widgets) ELSE UNCHANGED widgets

on_prev_image ==
    /\ Dispatch
    /\ prev_image
    /\ IF last'.ret = "True" THEN display_image(widgets) ELSE UNCHANGED widgets

\* A variant of on_classify that moves on first and labels the image it
\* arrives at.
on_classify_advances_first(classification) ==
    /\ Dispatch
    /\ IF image_paths = <<>>
       THEN /\ UNCHANGED <<classifications, current_index>>
            /\ emitted' = <<>>
       ELSE LET arrived == IF current_index >= Len(image_paths) - 1
                           THEN current_index ELSE current_index + 1
                image_filename == basename(image_paths[arrived + 1])
            IN  /\ current_index' = arrived
                /\ classifications' =
                      [n \in (DOMAIN classifications) \cup {image_filename} |->
                          IF n = image_filename THEN classification
                          ELSE classifications[n]]
                /\ emitted' = << [signal |-> "classification_changed",
                                  index |-> current_index,
                                  classification |-> classification] >>
    /\ last' = [op |-> "next_image", arg |-> <<>>,
                ret |-> IF image_paths = <<>> \/ current_index >= Len(image_paths) - 1
                        THEN "False" ELSE "True",
                msg |-> NoMessage, pre_index |-> current_index,
                after_advance |-> FALSE]
    /\ UNCHANGED <<image_paths, files>>
    /\ IF image_paths = <<>>
       THEN UNCHANGED widgets
       ELSE LET signalled == [widgets EXCEPT
                                !.image_label = DisplayStyle(classification)]
            IN  IF last'.ret = "True"
                THEN display_image(signalled)
                ELSE widgets' = signalled

\* on_classify_yes and on_classify_no: set_classification, then
\* on_next_image; emitted is what the handler emitted (the signal of
\* set_classification), last is the record of its second call. The slot of
\* the signal sets the border of the label, and display_image runs when the
\* cursor moved.
on_classify(classification) ==
    /\ Dispatch
    /\ IF image_paths = <<>>
       THEN /\ UNCHANGED <<classifications, current_index>>
            /\ emitted' = <<>>
       ELSE LET image_filename == basename(image_paths[current_index + 1])
            IN  /\ classifications' =
                      [n \in (DOMAIN classifications) \cup {image_filename} |->
                          IF n = image_filename THEN classification
                          ELSE classifications[n]]
                /\ emitted' = << [signal |-> "classification_changed",
                                  index |-> current_index,
                                  classification |-> classification] >>
                /\ current_index' = IF current_index >= Len(image_paths) - 1
                                    THEN current_index ELSE current_index + 1
    /\ last' = [op |-> "next_image", arg |-> <<>>,
                ret |-> IF image_paths = <<>> \/ current_index >= Len(image_paths) - 1
                        THEN "False" ELSE "True",
                msg |-> NoMessage, pre_index |-> current_index,
                after_advance |-> FALSE]
    /\ UNCHANGED <<image_paths, files>>
    /\ IF image_paths = <<>>
       THEN UNCHANGED widgets
       ELSE LET signalled == [widgets EXCEPT
                                !.image_label = DisplayStyle(classification)]
            IN  IF last'.ret = "True"
                THEN display_image(signalled)
                ELSE widgets' = signalled

\* on_select_files, the image branch: the chosen files are copied into the
\* work folder under their own names, the copies become the session and the
\* first one is displayed.
copy_images_to_work_dir(paths) ==
    [i \in 1..Len(paths) |-> <<"work", basename(paths[i])>>]

on_select_images(paths) ==
    LET copied_paths == copy_images_to_work_dir(paths)
    IN  /\ gui_thread = <<>>
        /\ paths # <<>>
        /\ vp' = NotStarted
        /\ disk' = disk \cup { copied_paths[i] : i \in 1..Len(copied_paths) }
        /\ UNCHANGED <<gui_thread, progress_bar>>
        /\ load_images(copied_paths)
        /\ display_image(widgets)

\* The files the dialog of on_load_csv may return: files of one row that
\* name a copied image, the first frame, and the last frame the bounds allow
\* (each of them names no image of some session, and load_csv then fails).
CsvChoices ==
    { UserCsv(StdHeader, << UserRow("a.jpg", "Yes", 4) >>),
      UserCsv(StdHeader, << UserRow(frame_filename(1), "Yes", 4) >>),
      UserCsv(StdHeader, << UserRow(frame_filename(MaxFrames), "No", 4) >>) }

\* on_load_csv, reached through its button only: load_csv of the chosen
\* file; when it succeeds the cursor goes to the first image and that image
\* is displayed, when it fails an error box is shown.
on_load_csv(f) ==
    LET r == load_csv(f, image_paths, classifications)
    IN  /\ Dispatch
        /\ widgets.btn_load_csv
        /\ classifications' = r.classifications
        /\ emitted' = <<>>
        /\ UNCHANGED <<image_paths, files>>
        /\ IF r.ok
           THEN /\ current_index' = IF image_paths = <<>> THEN current_index ELSE 0
                /\ last' = [op |-> "go_to_image", arg |-> 0,
                            ret |-> IF image_paths = <<>> THEN "False" ELSE "True",
                            msg |-> NoMessage, pre_index |-> current_index,
                            after_advance |-> FALSE]
                /\ display_image(widgets)
           ELSE /\ UNCHANGED current_index
                /\ last' = Call("load_csv", "(chosen file)", "False", r.msg)
                /\ UNCHANGED widgets

NextVideo ==
    \/ \E video \in Videos, made \in BOOLEAN : on_select_files(video, made)
    \/ extract_open
    \/ extract_count
    \/ extract_read
    \/ \E outcome \in ImwriteOutcomes : extract_write(outcome)
    \/ on_next_image
    \/ on_prev_image
    \/ \E classification \in Labels : on_classify(classification)

SpecVideo == Init /\ [][NextVideo]_vars

\* The whole window: every handler that changes the session or what is
\* displayed of it, with the videos whose frame count is the number of their
\* frames.
WindowVideos == { Video(TRUE, MaxFrames, MaxFrames) }

NextWindow ==
    \/ \E video \in WindowVideos, made \in BOOLEAN : on_select_files(video, made)
    \/ \E paths \in PathLists : on_select_images(paths)
    \/ \E f \in CsvChoices : on_load_csv(f)
    \/ extract_open
    \/ extract_count
    \/ extract_read
    \/ \E outcome \in ImwriteOutcomes : extract_write(outcome)
    \/ on_next_image
    \/ on_prev_image
    \/ \E classification \in Labels : on_classify(classification)

SpecWindow == Init /\ [][NextWindow]_vars

(***************************************************************************)
(* Vocabulary of the properties.                                           *)
(***************************************************************************)
NonEmpty == image_paths # <<>>

LastIndex == Len(image_paths) - 1

CurrentName == basename(image_paths[current_index + 1])

SomeLabelSet == \E n \in DOMAIN classifications : classifications[n] # ""

Columns(header) == { header[i] : i \in 1..Len(header) }

\* A CSV file that exists, reads, and has the three columns in its header.
WellFormed(f) ==
    /\ f.kind = "csv"
    /\ HasFieldnames(ReadRecords(f))
    /\ HeaderOk(Fieldnames(ReadRecords(f)))

ParsedRows(f) == DataRows(ReadRecords(f))

RowName(f, row) == DictValue(Fieldnames(ReadRecords(f)), row, "image_name")

RowClassification(f, row) ==
    DictValue(Fieldnames(ReadRecords(f)), row, "classification")

\* The image names of the rows of a well-formed file, as parsed.
RowNames(f) ==
    { RowName(f, ParsedRows(f)[k]) : k \in 1..Len(ParsedRows(f)) } \ {PyNone}

\* The names of the rows the import accepts (classification Yes, No, empty).
AcceptedRowNames(f) ==
    { RowName(f, ParsedRows(f)[k]) :
        k \in { j \in 1..Len(ParsedRows(f)) :
                  RowClassification(f, ParsedRows(f)[j]) \in AcceptedClassifications } }

\* The file has an accepted row for a current image that would change its label.
WouldChangeALabel(f) ==
    \E k \in 1..Len(ParsedRows(f)) :
        LET n == RowName(f, ParsedRows(f)[k])
            c == RowClassification(f, ParsedRows(f)[k])
        IN  /\ c \in AcceptedClassifications
            /\ n \in DOMAIN classifications
            /\ classifications[n] # c

(***************************************************************************)
(* C1: whenever the image set is not empty, the cursor is an index of it:  *)
(* 0 <= current_index < len(image_paths).                                  *)
(***************************************************************************)
C1_CursorInRange ==
    NonEmpty => (0 <= current_index /\ current_index < Len(image_paths))

\* A load that replaced a set by a shorter one while the cursor was not 0.
C1_Witness ==
    /\ last.op = "load_images"
    /\ last.pre_index > 0
    /\ Len(image_paths) = 1

(***************************************************************************)
(* C2, as amended: importing an existing, readable CSV whose header has    *)
(* the three columns and which has a row with classification Yes, No or    *)
(* empty whose image_name is not the basename of a current image fails     *)
(* with UnknownImages and leaves the label map as it was.                  *)
(***************************************************************************)
C2_AcceptedUnknownRowFails ==
    [][ \A p \in CsvPaths :
          ( /\ last'.op = "load_csv"
            /\ last'.arg = p
            /\ WellFormed(files[p])
            /\ AcceptedRowNames(files[p]) \ Basenames(image_paths) # {} )
          => ( /\ last'.ret = "False"
               /\ last'.msg.kind = "UnknownImages"
               /\ classifications' = classifications ) ]_vars

\* A failed import of a file that, besides the unknown image, has a row for
\* a current image that would have changed its label.
C2_Witness ==
    /\ last.op = "load_csv"
    /\ last.msg.kind = "UnknownImages"
    /\ WellFormed(files[last.arg])
    /\ AcceptedRowNames(files[last.arg]) \ Basenames(image_paths) # {}
    /\ WouldChangeALabel(files[last.arg])

(***************************************************************************)
(* C2, as claimed: importing a (well-formed) CSV with any row whose        *)
(* image_name is not the basename of a current image fails with            *)
(* UnknownImages and leaves the label map as it was.                       *)
(***************************************************************************)
C2_AnyUnknownRowFails ==
    [][ \A p \in CsvPaths :
          ( /\ last'.op = "load_csv"
            /\ last'.arg = p
            /\ WellFormed(files[p])
            /\ RowNames(files[p]) \ Basenames(image_paths) # {} )
          => ( /\ last'.ret = "False"
               /\ last'.msg.kind = "UnknownImages"
               /\ classifications' = classifications ) ]_vars

(***************************************************************************)
(* C3: a successful save_csv followed at once by load_csv of the written   *)
(* file succeeds, and the label map after it is the label map before the   *)
(* save (the image set is the same throughout).                            *)
(***************************************************************************)
C3_RoundTrip ==
    [][ /\ ( last'.op = "save_csv" =>
               (classifications' = classifications /\ image_paths' = image_paths) )
        /\ ( ( /\ last.op = "save_csv"
               /\ last.ret = "True"
               /\ last'.op = "load_csv"
               /\ last'.arg = last.arg )
             => ( /\ last'.ret = "True"
                  /\ classifications' = classifications
                  /\ image_paths' = image_paths ) ) ]_vars

(***************************************************************************)
(* C4: a load_csv that fails (file not found, malformed header, unknown    *)
(* images, read error) leaves image set, label map and cursor as they were.*)
(***************************************************************************)
C4_FailedImportChangesNothing ==
    [][ (last'.op = "load_csv" /\ last'.ret = "False")
        => ( /\ session' = session
             /\ last'.msg.kind \in { "FileNotFound", "MalformedHeader",
                                     "UnknownImages", "ReadError" } ) ]_vars

\* A read error met with labels set and the cursor away from 0.
C4_Witness ==
    /\ last.op = "load_csv"
    /\ last.ret = "False"
    /\ last.msg.kind = "ReadError"
    /\ SomeLabelSet
    /\ current_index > 0

(***************************************************************************)
(* C5: load_csv of a file whose header row lacks one of frame_index,       *)
(* image_name, classification fails with MalformedHeader and changes       *)
(* nothing; a header row with the three columns, in any order, is not      *)
(* rejected as malformed.                                                  *)
(***************************************************************************)
C5_MalformedHeader ==
    [][ \A p \in CsvPaths :
          ( /\ last'.op = "load_csv"
            /\ last'.arg = p
            /\ files[p].kind = "csv"
            /\ files[p].recs # <<>> )
          => IF required_fields \subseteq Columns(files[p].recs[1])
             THEN last'.msg.kind # "MalformedHeader"
             ELSE /\ last'.ret = "False"
                  /\ last'.msg.kind = "MalformedHeader"
                  /\ session' = session
                  /\ files' = files ]_vars

\* The import of a file without the classification column, refused while
\* labels were set.
C5_Witness ==
    /\ last.op = "load_csv"
    /\ last.msg.kind = "MalformedHeader"
    /\ files[last.arg].recs # <<>>
    /\ "classification" \notin Columns(files[last.arg].recs[1])
    /\ SomeLabelSet

(***************************************************************************)
(* C6: load_images(paths) leaves image_paths = paths in the given order,   *)
(* the cursor at 0 and every image unlabeled, whatever the session was.    *)
(***************************************************************************)
C6_LoadReplacesSession ==
    [][ last'.op = "load_images"
        => ( /\ image_paths' = last'.arg
             /\ current_index' = 0
             /\ \A i \in 1..Len(image_paths') :
                   /\ basename(image_paths'[i]) \in DOMAIN classifications'
                   /\ classifications'[basename(image_paths'[i])] = "" ) ]_vars

\* A load of several images over a session whose cursor had moved.
C6_Witness ==
    /\ last.op = "load_images"
    /\ last.pre_index > 0
    /\ Len(image_paths) >= 2
    /\ ~SomeLabelSet

(***************************************************************************)
(* C7: set_classification(label) on a non-empty set gives the current      *)
(* image's name that label, emits exactly one classification_changed       *)
(* (cursor, label) and leaves the cursor; on an empty set it changes       *)
(* nothing and emits nothing.                                              *)
(***************************************************************************)
C7_SetLabel ==
    [][ last'.op = "set_classification"
        => IF NonEmpty
           THEN /\ CurrentName \in DOMAIN classifications'
                /\ classifications'[CurrentName] = last'.arg
                /\ emitted' = << [signal |-> "classification_changed",
                                  index |-> current_index,
                                  classification |-> last'.arg] >>
                /\ current_index' = current_index
                /\ image_paths' = image_paths
           ELSE /\ session' = session
                /\ emitted' = <<>> ]_vars

\* A label just set on an image that is not the first one.
C7_Witness ==
    /\ last.op = "set_classification"
    /\ NonEmpty
    /\ current_index > 0
    /\ Len(emitted) = 1
    /\ classifications[CurrentName] = "No"

(***************************************************************************)
(* C8: next_image at the last index, or on an empty set, returns False and *)
(* leaves the cursor; otherwise it returns True and the cursor is one more.*)
(***************************************************************************)
C8_AdvanceNeverWraps ==
    [][ last'.op = "next_image"
        => IF ~NonEmpty \/ current_index = LastIndex
           THEN last'.ret = "False" /\ current_index' = current_index
           ELSE last'.ret = "True" /\ current_index' = current_index + 1 ]_vars

\* An advance refused at the end of a set of several images.
C8_Witness ==
    /\ last.op = "next_image"
    /\ last.ret = "False"
    /\ Len(image_paths) >= 2
    /\ current_index = LastIndex

(***************************************************************************)
(* C9: prev_image at index 0, or on an empty set, returns False and leaves *)
(* the cursor; otherwise it returns True and the cursor is one less.       *)
(***************************************************************************)
C9_RetreatNeverWraps ==
    [][ last'.op = "prev_image"
        => IF ~NonEmpty \/ current_index = 0
           THEN last'.ret = "False" /\ current_index' = current_index
           ELSE last'.ret = "True" /\ current_index' = current_index - 1 ]_vars

\* A retreat refused at the start of a set of several images.
C9_Witness ==
    /\ last.op = "prev_image"
    /\ last.ret = "False"
    /\ Len(image_paths) >= 2
    /\ current_index = 0

(***************************************************************************)
(* C10: from a cursor that is not at the last index, next_image returns    *)
(* True, and a prev_image right after it returns True and puts the cursor  *)
(* back where it was; neither changes the image set or the label map.      *)
(***************************************************************************)
C10_AdvanceThenRetreat ==
    [][ /\ ( (last'.op = "next_image" /\ NonEmpty /\ current_index < LastIndex)
             => ( /\ last'.ret = "True"
                  /\ image_paths' = image_paths
                  /\ classifications' = classifications ) )
        /\ ( ( /\ last.op = "next_image"
               /\ NonEmpty
               /\ last.pre_index < LastIndex
               /\ last'.op = "prev_image" )
             => ( /\ last'.ret = "True"
                  /\ current_index' = last.pre_index
                  /\ image_paths' = image_paths
                  /\ classifications' = classifications ) ) ]_vars

\* A retreat that undid the advance made right before it, labels being set.
C10_Witness ==
    /\ last.op = "prev_image"
    /\ last.ret = "True"
    /\ last.after_advance
    /\ current_index = last.pre_index - 1
    /\ SomeLabelSet

(***************************************************************************)
(* C11: go_to_image(index) returns False and leaves the cursor where it    *)
(* was whenever index is outside [0, len-1] (a negative index, an index    *)
(* past the end, any index on an empty image set); otherwise it returns    *)
(* True and the cursor is index.  It changes neither the image set nor     *)
(* the label map.                                                          *)
(***************************************************************************)
C11_Seek ==
    [][ last'.op = "go_to_image"
        => /\ IF last'.arg < 0 \/ last'.arg > Len(image_paths) - 1
              THEN last'.ret = "False" /\ current_index' = current_index
              ELSE last'.ret = "True" /\ current_index' = last'.arg
           /\ image_paths' = image_paths
           /\ classifications' = classifications ]_vars

\* A seek to the index right past the end, refused with the cursor off 0.
C11_Witness ==
    /\ last.op = "go_to_image"
    /\ last.ret = "False"
    /\ NonEmpty
    /\ last.arg = Len(image_paths)
    /\ current_index > 0
    /\ current_index = last.pre_index

(***************************************************************************)
(* C12: a save_csv that succeeds leaves a file made of the header          *)
(* frame_index,image_name,classification and then exactly one row per      *)
(* image, in the order of the image set; row k is (k, the basename of the  *)
(* k-th path, the label of that image, the empty string when it has none). *)
(***************************************************************************)
C12_Export ==
    [][ (last'.op = "save_csv" /\ last'.ret = "True")
        => LET f == files'[last'.arg]
           IN  /\ f.kind = "csv"
               /\ Len(f.recs) = Len(image_paths) + 1
               /\ f.recs[1] = <<"frame_index", "image_name", "classification">>
               /\ \A k \in 1..Len(image_paths) :
                      /\ Len(f.recs[k + 1]) = 3
                      /\ f.recs[k + 1][1] = ToString(k)
                      /\ f.recs[k + 1][2] = basename(image_paths[k])
                      /\ f.recs[k + 1][3] \in {"Yes", "No", ""}
                      /\ f.recs[k + 1][3] = classifications[basename(image_paths[k])] ]_vars

\* An export of two images, the first labelled Yes and the second No, made
\* with the cursor on the second.
C12_Witness ==
    /\ last.op = "save_csv"
    /\ last.ret = "True"
    /\ current_index = 1
    /\ files[last.arg].recs =
          << StdHeader, <<"1", "a.jpg", "Yes">>, <<"2", "x\ry.jpg", "No">> >>

\* The classifications an import may apply, as the specification lists them.
ValidClassifications == {"Yes", "No", ""}

\* The rows of a well-formed file that carry a valid classification and name n.
ValidRowsNaming(f, n) ==
    { k \in 1..Len(ParsedRows(f)) :
        /\ RowName(f, ParsedRows(f)[k]) = n
        /\ RowClassification(f, ParsedRows(f)[k]) \in ValidClassifications }

\* The rows of a well-formed file whose classification is not a valid one.
DroppedRows(f) ==
    { k \in 1..Len(ParsedRows(f)) :
        RowClassification(f, ParsedRows(f)[k]) \notin ValidClassifications }

(***************************************************************************)
(* C13 as amended: a load_csv that succeeds leaves the cursor and the      *)
(* image set unchanged, gives each image named by an accepted row the      *)
(* classification of the LAST accepted row that names it, and leaves the   *)
(* label of every image no accepted row names as it was.                   *)
(***************************************************************************)
C13_ImportAppliesLastRow ==
    [][ (last'.op = "load_csv" /\ last'.ret = "True")
        => LET f == files[last'.arg]
           IN  /\ current_index' = current_index
               /\ image_paths' = image_paths
               /\ DOMAIN classifications' = DOMAIN classifications
               /\ \A n \in DOMAIN classifications :
                      IF ValidRowsNaming(f, n) # {}
                      THEN classifications'[n] =
                             RowClassification(f, ParsedRows(f)[Max(ValidRowsNaming(f, n))])
                      ELSE classifications'[n] = classifications[n] ]_vars

\* An import of a file whose two accepted rows disagree about a.jpg, with
\* the cursor on the second image, whose label the file does not name.
C13_Witness ==
    /\ last.op = "load_csv"
    /\ last.ret = "True"
    /\ current_index = 1
    /\ files[last.arg] =
          UserCsv(StdHeader, << UserRow("a.jpg", "Yes", 4), UserRow("a.jpg", "No", 4) >>)
    /\ classifications["a.jpg"] = "No"
    /\ classifications["x\ry.jpg"] = "Yes"

(***************************************************************************)
(* C13 as stated: a load_csv that succeeds leaves the cursor and the image *)
(* set unchanged, gives the image named by each accepted row that row's    *)
(* classification, and leaves every other label as it was.                 *)
(***************************************************************************)
C13_ImportAppliesEveryRow ==
    [][ (last'.op = "load_csv" /\ last'.ret = "True")
        => LET f == files[last'.arg]
           IN  /\ current_index' = current_index
               /\ image_paths' = image_paths
               /\ \A n \in DOMAIN classifications :
                      IF ValidRowsNaming(f, n) # {}
                      THEN \A k \in ValidRowsNaming(f, n) :
                             classifications'[n] = RowClassification(f, ParsedRows(f)[k])
                      ELSE classifications'[n] = classifications[n] ]_vars

(***************************************************************************)
(* C14: a row whose classification is not Yes, No or empty is dropped and  *)
(* does not abort the import: load_csv of a well-formed file that has such *)
(* rows, and whose other rows all name current images, succeeds; the       *)
(* other rows are applied, and an image that only dropped rows name keeps  *)
(* its label.                                                              *)
(***************************************************************************)
C14_DroppedRows ==
    [][ ( /\ last'.op = "load_csv"
          /\ WellFormed(files[last'.arg])
          /\ DroppedRows(files[last'.arg]) # {}
          /\ \A k \in 1..Len(ParsedRows(files[last'.arg])) :
                k \in DroppedRows(files[last'.arg])
                \/ RowName(files[last'.arg], ParsedRows(files[last'.arg])[k])
                      \in Basenames(image_paths) )
        => LET f == files[last'.arg]
           IN  /\ last'.ret = "True"
               /\ \A n \in DOMAIN classifications :
                      /\ classifications'[n] \in ValidClassifications
                      /\ ValidRowsNaming(f, n) = {}
                           => classifications'[n] = classifications[n]
                      /\ ValidRowsNaming(f, n) # {}
                           => \E k \in ValidRowsNaming(f, n) :
                                classifications'[n] =
                                  RowClassification(f, ParsedRows(f)[k]) ]_vars

\* An import that applied the row (a.jpg, Yes) and dropped the row
\* (a.jpg, Maybe) that comes after it.
C14_Witness ==
    /\ last.op = "load_csv"
    /\ last.ret = "True"
    /\ files[last.arg] =
          UserCsv(StdHeader, << UserRow("a.jpg", "Yes", 4), UserRow("a.jpg", "Maybe", 4) >>)
    /\ "a.jpg" \in DOMAIN classifications
    /\ classifications["a.jpg"] = "Yes"

(***************************************************************************)
(* Vocabulary of the properties of the extraction.                         *)
(***************************************************************************)
\* An extraction is in flight: started, its terminal signal not yet emitted.
InFlight == vp.pc \notin {"idle", "returned"}

Returned == vp.pc = "returned"

IsTerminal(sig) == sig.signal \in {"processing_completed", "error_occurred"}

TerminalSignal(frame) == frame.signals[Len(frame.signals)]

FailedWith(frame, message) ==
    /\ frame.pc = "returned"
    /\ TerminalSignal(frame) = error_occurred(message)

\* The path of frame i as the specification names it, for i below 10.
ExpectedPath(i) == <<"out", "v", "v_000" \o ToString(i) \o ".jpg">>

(***************************************************************************)
(* C15: an extraction of a video that opens and whose decoder reports a    *)
(* frame count <= 0 reads no frame, writes no file, emits no progress and  *)
(* no processing_completed, and ends with the one signal error_occurred    *)
(* for the frame count.                                                    *)
(***************************************************************************)
C15_FrameCountUnavailable ==
    (vp.pc # "idle" /\ vp.video.opens /\ vp.video.frame_count <= 0)
    => /\ vp.reads = 0
       /\ vp.written = {}
       /\ vp.frame_paths = <<>>
       /\ \A i \in 1..Len(vp.signals) :
              vp.signals[i].signal \notin {"progress_updated", "processing_completed"}
       /\ vp.pc \in {"open", "count", "returned"}
       /\ Returned => vp.signals = << error_occurred("FrameCountUnavailable") >>

\* The extraction of a video that reports 0 frames and would deliver some
\* has returned.
C15_Witness ==
    /\ Returned
    /\ vp.video.opens
    /\ vp.video.frame_count = 0
    /\ vp.video.frames > 0
    /\ FailedWith(vp, "FrameCountUnavailable")

(***************************************************************************)
(* C16: while an extraction is in flight the session is the session of     *)
(* when it started; a step of the extraction changes the session only by   *)
(* emitting processing_completed with a non-empty path list, which becomes *)
(* the image set; and when the extraction ends with error_occurred (the    *)
(* video does not open, no frame count, an exception) the session is the   *)
(* session of when it started.                                             *)
(***************************************************************************)
C16_SessionOnlyByHandoff ==
    [][ /\ vp'.pc \notin {"idle", "returned"} => session' = vp'.session_before
        /\ (InFlight /\ vp'.pc = "returned"
              /\ TerminalSignal(vp').signal = "error_occurred")
             => /\ session' = vp.session_before
                /\ session' = session
        /\ (InFlight /\ session' # session)
             => /\ vp'.pc = "returned"
                /\ TerminalSignal(vp') = processing_completed(vp.frame_paths)
                /\ vp.frame_paths # <<>>
                /\ image_paths' = vp.frame_paths
                /\ current_index' = 0
                /\ \A n \in DOMAIN classifications' : classifications'[n] = "" ]_vars

\* An extraction that wrote a frame and then failed on an exception, the
\* session having images, a label and the cursor off the first image.
C16_Witness ==
    /\ FailedWith(vp, "ExtractionError")
    /\ vp.written # {}
    /\ NonEmpty
    /\ SomeLabelSet
    /\ current_index > 0

(***************************************************************************)
(* C17: when the write of a frame file fails (imwrite returns False or     *)
(* raises), the extraction ends with error_occurred for the exception,     *)
(* processing_completed is not emitted, and the path of the frame is not   *)
(* among the paths produced.                                               *)
(***************************************************************************)
C17_WriteFailureFails ==
    [][ (vp.pc = "write" /\ frame_path(vp.frame_index) \notin vp'.written)
        => /\ FailedWith(vp', "ExtractionError")
           /\ \A i \in 1..Len(vp'.signals) :
                  vp'.signals[i].signal # "processing_completed"
           /\ \A i \in 1..Len(vp'.frame_paths) :
                  vp'.frame_paths[i] # frame_path(vp.frame_index) ]_vars

(***************************************************************************)
(* C18: the signals of a run are progress_updated(i, total_frames) for     *)
(* i = 1, 2, ... in this order, each emitted when frame i is written as    *)
(* v_000i.jpg, then exactly one terminal signal, emitted when the run      *)
(* returns and never before: processing_completed with the paths of the    *)
(* written frames in order, or error_occurred; nothing follows it.         *)
(***************************************************************************)
C18_SignalOrder ==
    /\ \A i \in 1..Len(vp.signals) :
          /\ vp.signals[i].signal = "progress_updated"
               => /\ vp.signals[i].current = i
                  /\ vp.signals[i].total = vp.video.frame_count
                  /\ ExpectedPath(i) \in vp.written
          /\ IsTerminal(vp.signals[i])
               => /\ i = Len(vp.signals)
                  /\ Returned
          /\ vp.signals[i].signal = "processing_completed"
               => /\ vp.signals[i].paths = [k \in 1..(i - 1) |-> ExpectedPath(k)]
                  /\ \A k \in 1..(i - 1) : ExpectedPath(k) \in vp.written
    /\ Returned => (vp.signals # <<>> /\ IsTerminal(TerminalSignal(vp)))

(***************************************************************************)
(* C19: the loop goes on after every read that delivers a frame and ends   *)
(* at the first read that delivers none, whatever total_frames is; that    *)
(* read ends the run with processing_completed carrying exactly as many    *)
(* paths as frames were delivered.                                         *)
(***************************************************************************)
C19_StopsAtFirstFailedRead ==
    [][ vp.pc = "read"
        => IF vp.reads < vp.video.frames
           THEN vp'.pc = "write" /\ vp'.frame_index = vp.reads + 1
           ELSE /\ vp'.pc = "returned"
                /\ vp'.reads = vp.video.frames + 1
                /\ TerminalSignal(vp').signal = "processing_completed"
                /\ Len(TerminalSignal(vp').paths) = vp.video.frames
                /\ \A i \in 1..Len(vp'.signals) :
                       vp'.signals[i].signal # "error_occurred" ]_vars

\* A run that completed with all the frames of a video whose reported
\* frame count is below their number.
C19_Witness ==
    /\ Returned
    /\ vp.video.frames = MaxFrames
    /\ vp.video.frame_count = 1
    /\ vp.video.frame_count < vp.video.frames
    /\ TerminalSignal(vp) = processing_completed(vp.frame_paths)
    /\ Len(vp.frame_paths) = MaxFrames

(***************************************************************************)
(* C20: while an extraction is in flight the thread of the event loop is   *)
(* not inside the handler that started it, and the handlers of navigation  *)
(* and labelling can run.                                                  *)
(***************************************************************************)
C20_HandlersRunDuringExtraction ==
    InFlight
    => /\ \A i \in 1..Len(gui_thread) : gui_thread[i] # "on_select_files"
       /\ ENABLED on_next_image
       /\ ENABLED on_prev_image
       /\ ENABLED (\E classification \in Labels : on_classify(classification))

(***************************************************************************)
(* C21: a Yes or No handler run on a non-empty session (the step of the    *)
(* event loop that emits classification_changed and ends in a next_image)  *)
(* gives the image                                                         *)
(* at the old cursor the chosen label, leaves the other labels and the     *)
(* image set alone, and leaves the cursor at min(old cursor + 1, len - 1): *)
(* at the last image the label is recorded and the cursor stays.           *)
(***************************************************************************)
C21_ClassifyThenAdvance ==
    [][ (gui_thread = <<>> /\ gui_thread' = <<>>
          /\ last'.op = "next_image" /\ emitted' # <<>>)
        => /\ NonEmpty
           /\ emitted'[1].signal = "classification_changed"
           /\ emitted'[1].index = current_index
           /\ emitted'[1].classification \in {"Yes", "No"}
           /\ image_paths' = image_paths
           /\ DOMAIN classifications' = DOMAIN classifications
           /\ classifications'[CurrentName] = emitted'[1].classification
           /\ \A n \in DOMAIN classifications :
                  n # CurrentName => classifications'[n] = classifications[n]
           /\ current_index' = Min(current_index + 1, Len(image_paths) - 1)
           /\ last'.ret = "False" <=> current_index = Len(image_paths) - 1 ]_vars

\* A No given at the last of several images, the one before it being Yes:
\* the label is recorded and the cursor has stayed.
C21_Witness ==
    /\ last.op = "next_image"
    /\ last.ret = "False"
    /\ emitted # <<>>
    /\ emitted[1].classification = "No"
    /\ Len(image_paths) >= 2
    /\ current_index = Len(image_paths) - 1
    /\ last.pre_index = current_index
    /\ classifications[CurrentName] = "No"
    /\ classifications[basename(image_paths[current_index])] = "Yes"

(***************************************************************************)
(* C22: in every state the keys of classifications are exactly the         *)
(* basenames of image_paths and every value is "", "Yes" or "No"; no step  *)
(* other than a load_images changes the key set.                           *)
(***************************************************************************)
C22_LabelMapKeys ==
    [][ /\ DOMAIN classifications = Basenames(image_paths)
        /\ DOMAIN classifications' = Basenames(image_paths')
        /\ \A n \in DOMAIN classifications' :
               classifications'[n] \in {"", "Yes", "No"}
        /\ last'.op # "load_images"
             => DOMAIN classifications' = DOMAIN classifications ]_vars

\* An import has succeeded on two images, one labelled and one not.
C22_Witness ==
    /\ last.op = "load_csv"
    /\ last.ret = "True"
    /\ Len(image_paths) = 2
    /\ DOMAIN classifications = {"a.jpg", "x\ry.jpg"}
    /\ classifications["a.jpg"] # ""
    /\ classifications["x\ry.jpg"] = ""


(***************************************************************************)
(* C23: whenever a handler of the window has completed (the thread is back *)
(* in the event loop) on a non-empty session whose image files all exist,  *)
(* the border of the image label shows the label of the image at the       *)
(* cursor (green for Yes, red for No, gray for none), the prev button is   *)
(* enabled exactly when the cursor is above 0, and the next button exactly *)
(* when the cursor is below the last index.                                *)
(***************************************************************************)
C23_DisplayMatchesSession ==
    (/\ gui_thread = <<>>
     /\ NonEmpty
     /\ \A i \in 1..Len(image_paths) : image_paths[i] \in disk)
    => /\ widgets.image_label
            = DisplayStyle(GetClassification(classifications, CurrentName))
       /\ widgets.btn_prev = (current_index > 0)
       /\ widgets.btn_next = (current_index < Len(image_paths) - 1)

====
